---- MODULE Spec2Model ----
(***************************************************************************)
(* baiji-swagger (src/index.js, second revision, lines 293-722): the       *)
(* synthesis of a Swagger 2.0 document from a route table                  *)
(* (buildSwaggerConfig) and the basic-auth gate of the documentation       *)
(* server (createSwaggerServer).                                           *)
(*                                                                         *)
(* Strings the program takes apart or concatenates (paths, parameter       *)
(* names, fullName, definition keys, $ref values) are sequences of         *)
(* one-character strings; strings it only compares or passes through       *)
(* (verbs, types, tag names, descriptions) are TLA+ strings.  A property   *)
(* that is undefined and a property that is absent are the same value      *)
(* here, as they are in the JSON the server sends.                         *)
(***************************************************************************)
EXTENDS Integers, Sequences, FiniteSets, TLC

VARIABLES
    tags,         \* buildSwaggerConfig: let tags = []
    addedTags,    \* buildSwaggerConfig: let addedTags = {} (its own keys)
    paths,        \* buildSwaggerConfig: let paths = {} (leaves of the tree)
    definitions,  \* buildSwaggerConfig: let definitions = {...}
    done,         \* the prefix of app.allMethods() that addPath has processed
    call,         \* the locals of the last addPath call
    basicAuth,    \* options.basicAuth as createSwaggerServer reads it
    req,          \* the request the documentation server handled last
    res           \* the response it gave

vars == <<tags, addedTags, paths, definitions, done, call, basicAuth, req, res>>

Undefined == "undefined"

----------------------------------------------------------------------------
(* Bounds of the checked input domains *)

\* length of the route table in the path and tag specifications
MaxRoutes == 2
\* length of the route table in the parameter specification
MaxParamRoutes == 1
\* length of a route's parameter list
MaxParams == 2

----------------------------------------------------------------------------
(* Character-sequence helpers *)

Lower == {"a","b","c","d","e","f","g","h","i","j","k","l","m",
          "n","o","p","q","r","s","t","u","v","w","x","y","z"}
Upper == {"A","B","C","D","E","F","G","H","I","J","K","L","M",
          "N","O","P","Q","R","S","T","U","V","W","X","Y","Z"}
Digit == {"0","1","2","3","4","5","6","7","8","9"}

\* the character class [a-zA-Z0-9\-_] of pathReplacer's pattern
IdChars == Lower \cup Upper \cup Digit \cup {"-", "_"}

\* String.prototype.indexOf(sub) > -1
Contains(s, sub) ==
    \E i \in 1..(Len(s) - Len(sub) + 1) : SubSeq(s, i, i + Len(sub) - 1) = sub

\* the end of the maximal run of IdChars of s that starts at i
RunEnd(s, i) ==
    CHOOSE e \in i..Len(s) :
        /\ \A k \in i..e : s[k] \in IdChars
        /\ (e = Len(s) \/ s[e + 1] \notin IdChars)

RECURSIVE replaceFrom(_, _)
replaceFrom(s, i) ==
    IF i > Len(s) THEN <<>>
    ELSE IF s[i] = ":" /\ i < Len(s) /\ s[i + 1] \in IdChars
         THEN LET e == RunEnd(s, i + 1)
              IN  <<"{">> \o SubSeq(s, i + 1, e) \o <<"}">> \o replaceFrom(s, e + 1)
         ELSE <<s[i]>> \o replaceFrom(s, i + 1)

\* Transfer `:id` like parameter to `{id}`
pathReplacer(path) == replaceFrom(path, 1)

----------------------------------------------------------------------------
(* Configuration read by buildSwaggerConfig (the defaults: no options) *)

SWAGGER_BASE_PATH == "__swagger__"

DEFAULT_RESPONSES == [default |-> [description |-> "Default responses"]]

defaultResponses == DEFAULT_RESPONSES

supportTypes == <<"application/json">>

\* swagger.securityDefinitions is absent: map over {} is []
securities == <<>>

DotParams == <<".", "p", "a", "r", "a", "m", "s">>

RefPrefix == <<"#", "/", "d", "e", "f", "i", "n", "i", "t", "i", "o", "n", "s", "/">>

BodyName == <<"b", "o", "d", "y">>

----------------------------------------------------------------------------
(* buildParameters and its helpers *)

\* an object used as a map, in insertion order: obj[name] = value
Put(obj, name, value) ==
    IF \E i \in 1..Len(obj) : obj[i].name = name
    THEN [i \in 1..Len(obj) |->
            IF obj[i].name = name THEN [name |-> name, value |-> value] ELSE obj[i]]
    ELSE Append(obj, [name |-> name, value |-> value])

\* lodash values(obj)
values(obj) == [i \in 1..Len(obj) |-> obj[i].value]

RECURSIVE requiredFrom(_, _)
requiredFrom(params, i) ==
    IF i > Len(params) THEN <<>>
    ELSE (IF params[i].required THEN <<params[i].name>> ELSE <<>>)
         \o requiredFrom(params, i + 1)

\* extract required names for definitions according to params
extractRequiredNames(params) == requiredFrom(params, 1)

\* variant: the reduce without the params.length test, so that an empty
\* list yields formData
chooseParameterPositionByNoEmpty(verb, params) ==
    IF verb \in {"get", "options"} THEN "query"
    ELSE IF \E i \in 1..Len(params) : params[i].hasParams THEN "body" ELSE "formData"

\* Detect whether parameters should be placed in body, formData or query
chooseParameterPositionBy(verb, params) ==
    IF verb \in {"get", "options"} THEN "query"
    ELSE LET shouldInBody ==
                 IF Len(params) > 0
                 THEN \E i \in 1..Len(params) : params[i].hasParams
                 ELSE TRUE
         IN  IF shouldInBody THEN "body" ELSE "formData"

NoSchema == <<>>

\* the conf object of one parameter after the type analysis; ref is the
\* '#/definitions/<definitionKey>' of a parameter that has params
typedConf(param, ref) ==
    LET conf == [description |-> param.description,
                 default     |-> param.default,
                 required    |-> param.required,
                 type        |-> Undefined,
                 format      |-> Undefined,
                 items       |-> <<>>,
                 enum        |-> <<>>,
                 schema      |-> NoSchema,
                 in          |-> Undefined,
                 name        |-> <<>>]
    IN  IF param.isArray
        THEN [conf EXCEPT
                !.type = "array",
                !.items = <<[ref  |-> IF param.hasParams THEN ref ELSE <<>>,
                             type |-> IF param.hasParams THEN Undefined ELSE param.type,
                             enum |-> param.enum]>>]
        ELSE IF param.hasParams
             THEN [conf EXCEPT !.schema = <<[ref |-> ref, type |-> Undefined]>>]
             ELSE [conf EXCEPT
                     !.type = IF param.type = "date" THEN "string" ELSE param.type,
                     !.format = IF param.type = "date" THEN "date-time" ELSE Undefined,
                     !.enum = param.enum]

\* check whether parameter in path
paramInPath(path, param) == Contains(path, <<":">> \o param.name)

\* variant: the top-level branch taken without its `else`, after the body
\* branch
placeBoth(acc, param, conf, path, defaultIn) ==
    LET inPath == paramInPath(path, param)
        top == [conf EXCEPT
                  !.in = IF inPath THEN "path" ELSE defaultIn,
                  !.name = param.name,
                  !.required = IF inPath THEN TRUE ELSE param.required]
    IN  [acc EXCEPT !.result = Put(acc.result, param.name, top),
                    !.body = IF defaultIn = "body" /\ ~inPath
                             THEN Put(acc.body, param.name, conf) ELSE @]

\* Build for parameters: the placement of one parameter's conf
place(acc, param, conf, path, defaultIn) ==
    LET inPath == paramInPath(path, param)
        isInBody == defaultIn = "body"
    IN  IF isInBody /\ ~inPath
        THEN [acc EXCEPT !.body =
                Put(acc.body, param.name,
                    IF conf.schema # NoSchema THEN conf.schema[1] ELSE conf)]
        ELSE [acc EXCEPT !.result =
                Put(acc.result, param.name,
                    [conf EXCEPT
                       !.in = IF inPath THEN "path" ELSE defaultIn,
                       !.name = param.name,
                       !.required = IF inPath THEN TRUE ELSE param.required])]

\* variant: the definition stored under param.name instead of
\* definitionPrefix + param.name
definitionWriteUnprefixed(definitionKey, param, properties) ==
    <<[key   |-> param.name,
       value |-> [type       |-> "object",
                  required   |-> extractRequiredNames(param.params),
                  properties |-> properties]]>>

\* definitions[definitionKey] = {type, required, properties}
definitionWrite(definitionKey, param, properties) ==
    <<[key   |-> definitionKey,
       value |-> [type       |-> "object",
                  required   |-> extractRequiredNames(param.params),
                  properties |-> properties]]>>

\* variant: the body parameter always required
bodyParameterRequired(required, schema) ==
    [description |-> "body",
     default     |-> Undefined,
     required    |-> TRUE,
     type        |-> Undefined,
     format      |-> Undefined,
     items       |-> <<>>,
     enum        |-> <<>>,
     schema      |-> <<schema>>,
     in          |-> "body",
     name        |-> <<"b", "o", "d", "y">>]

RECURSIVE buildParameters(_, _, _, _)
RECURSIVE eachParam(_, _, _, _, _, _)

\* the body of map(params, function(param) {...}) from the i-th parameter on;
\* acc holds result, body and the writes to definitions, in order
eachParam(method, params, i, definitionPrefix, buildForDefinitiion, acc) ==
    IF i > Len(params) THEN acc
    ELSE
      LET param == params[i]
          definitionKey == definitionPrefix \o param.name
          ref == RefPrefix \o definitionKey
          nested == buildParameters(method, param.params, definitionKey \o <<".">>, TRUE)
          written ==
              IF param.hasParams
              THEN acc.writes \o nested.writes \o
                   definitionWrite(definitionKey, param, nested.properties)
              ELSE acc.writes
          conf == typedConf(param, ref)
          acc1 == [acc EXCEPT !.writes = written]
          acc2 == IF buildForDefinitiion
                  THEN [acc1 EXCEPT !.result = Put(acc1.result, param.name, conf)]
                  ELSE place(acc1, param, conf, method.path, acc.defaultIn)
      IN  eachParam(method, params, i + 1, definitionPrefix, buildForDefinitiion, acc2)

bodyParameter(required, schema) ==
    [description |-> "body",
     default     |-> Undefined,
     required    |-> required,
     type        |-> Undefined,
     format      |-> Undefined,
     items       |-> <<>>,
     enum        |-> <<>>,
     schema      |-> <<schema>>,
     in          |-> "body",
     name        |-> BodyName]

\* Build swagger compatible parameters.  definitionPrefix <<>> is the omitted
\* argument.  The result carries the returned value (properties in definition
\* mode, parameters otherwise) and, as the call's effect, its writes to
\* definitions in the order they happen.
buildParameters(method, params, definitionPrefix, buildForDefinitiion) ==
    LET defaultIn == IF buildForDefinitiion
                     THEN "query"
                     ELSE chooseParameterPositionBy(method.verb, params)
        bodyDefinitionKey == method.fullName \o DotParams
        prefix == IF definitionPrefix # <<>>
                  THEN definitionPrefix
                  ELSE bodyDefinitionKey \o <<".">>
        isInBody == defaultIn = "body"
        acc == eachParam(method, params, 1, prefix, buildForDefinitiion,
                         [result |-> <<>>, body |-> <<>>, writes |-> <<>>,
                          defaultIn |-> defaultIn])
        out == [properties |-> <<>>, parameters |-> <<>>, body |-> acc.body,
                defaultIn |-> defaultIn, writes |-> acc.writes]
    IN  IF buildForDefinitiion
        THEN [out EXCEPT !.properties = acc.result]
        ELSE IF isInBody
             THEN IF Len(acc.body) > 0
                  THEN [out EXCEPT
                          !.writes = Append(acc.writes,
                                            [key   |-> bodyDefinitionKey,
                                             value |-> [type       |-> "object",
                                                        properties |-> acc.body]]),
                          !.parameters = Append(values(acc.result),
                              bodyParameter(TRUE, [ref  |-> RefPrefix \o bodyDefinitionKey,
                                                   type |-> Undefined]))]
                  ELSE [out EXCEPT
                          !.parameters = Append(values(acc.result),
                              bodyParameter(FALSE, [ref |-> <<>>, type |-> "object"]))]
             ELSE [out EXCEPT !.parameters = values(acc.result)]

----------------------------------------------------------------------------
(* Tags and content type *)

\* what `{}` inherits from Object.prototype: addedTags[name] is truthy for
\* each of these names although addTag never stored it
ObjectPrototypeKeys ==
    {"constructor", "hasOwnProperty", "isPrototypeOf", "propertyIsEnumerable",
     "toLocaleString", "toString", "valueOf", "__proto__",
     "__defineGetter__", "__defineSetter__", "__lookupGetter__", "__lookupSetter__"}

\* addedTags[name]
addedTagsLookup(own, name) == name \in own \/ name \in ObjectPrototypeKeys

\* Add tag by name and description: the new <<tags, addedTags>>
addTag(tagList, own, name, description) ==
    IF addedTagsLookup(own, name)
    THEN <<tagList, own>>
    ELSE <<Append(tagList, [name |-> name, description |-> description]),
           own \cup {name}>>

\* Choose content type
chooseContentType(params) ==
    LET hits == {i \in 1..Len(params) :
                    params[i].type = "file" \/ params[i].in = "formData"}
    IN  IF hits = {}
        THEN <<"application/json">>
        ELSE LET i == CHOOSE h \in hits : \A k \in hits : h <= k
             IN  IF params[i].type = "file"
                 THEN <<"multipart/form-data">>
                 ELSE <<"application/x-www-form-urlencoded">>

----------------------------------------------------------------------------
(* lodash get/set on `paths`.  The tree is held by its leaves: paths maps     *)
(* <<at, verb>> to the Operation stored under key `verb` of the object at     *)
(* the key sequence `at`.  Route paths here hold no '[' or ']' and no         *)
(* segment after a '.' is a verb name.                                        *)

RECURSIVE stringToPath(_)
\* lodash stringToPath on a string without brackets: split at every '.'
stringToPath(string) ==
    IF ~Contains(string, <<".">>)
    THEN <<string>>
    ELSE LET i == CHOOSE k \in 1..Len(string) :
                      string[k] = "." /\ \A l \in 1..(k - 1) : string[l] # "."
         IN  <<SubSeq(string, 1, i - 1)>> \o stringToPath(SubSeq(string, i + 1, Len(string)))

\* the own top-level keys of the paths object
topKeys(object) == {k[1][1] : k \in DOMAIN object}

\* lodash isKey: a plain property name, or not a deep path, or a key of object
isKey(value, object) == ~Contains(value, <<".">>) \/ value \in topKeys(object)

\* lodash castPath, as get(paths, path) and set(paths, path, ...) apply it
castPath(value, object) ==
    IF isKey(value, object) THEN <<value>> ELSE stringToPath(value)

\* the verb keys of get(paths, path) || {}
pathConfigVerbs(object, at) == {k[2] : k \in {l \in DOMAIN object : l[1] = at}}

\* variant: no expansion of 'all'
verbsWrittenSingle(httpMethod) == {httpMethod}

\* the keys of pathConfig that addPath assigns
verbsWritten(httpMethod) ==
    IF httpMethod = "all"
    THEN {"get", "post", "put", "delete", "patch"}
    ELSE {httpMethod}

\* pathConfig[verb] = operation for the verbs written, then
\* set(paths, path, pathConfig)
setPaths(object, at, verbs, operation) ==
    LET new == {<<at, v>> : v \in verbs}
    IN  [k \in DOMAIN object \cup new |-> IF k \in new THEN operation ELSE object[k]]

----------------------------------------------------------------------------
(* addPath *)

Arrow == <<" ", "=", ">", " ">>

RECURSIVE applyWrites(_, _, _)
\* definitions[key] = value for the writes of one call, in order
applyWrites(defs, writes, i) ==
    IF i > Len(writes) THEN defs
    ELSE applyWrites([k \in DOMAIN defs \cup {writes[i].key} |->
                         IF k = writes[i].key THEN writes[i].value ELSE defs[k]],
                     writes, i + 1)

tagNameOf(method) == method.parent.name

tagDescOf(method) ==
    IF method.parent.description # ""
    THEN method.parent.description
    ELSE method.parent.settingsDescription

operationOf(method, parameters, consumes) ==
    [tags        |-> <<tagNameOf(method)>>,
     summary     |-> method.fullName \o Arrow \o method.description,
     description |-> method.notes,
     consumes    |-> consumes,
     produces    |-> supportTypes,
     parameters  |-> parameters,
     responses   |-> defaultResponses,
     security    |-> securities]

NoCall ==
    [documented |-> FALSE, at |-> <<>>, parameters |-> <<>>, body |-> <<>>,
     defaultIn |-> Undefined, consumes |-> <<>>, written |-> <<>>]

\* add path by method
addPath(method) ==
    /\ done' = Append(done, method)
    /\ UNCHANGED <<basicAuth, req, res>>
    /\ IF method.name = SWAGGER_BASE_PATH \/ method.verb = "use"
       THEN /\ call' = NoCall
            /\ UNCHANGED <<tags, addedTags, paths, definitions>>
       ELSE LET path == pathReplacer(method.path)
                httpMethod == method.verb
                at == castPath(path, paths)
                tagged == addTag(tags, addedTags, tagNameOf(method), tagDescOf(method))
                built == buildParameters(method, method.params, <<>>, FALSE)
                parameters == built.parameters
                consumes == chooseContentType(parameters)
            IN  /\ tags' = tagged[1]
                /\ addedTags' = tagged[2]
                /\ definitions' = applyWrites(definitions, built.writes, 1)
                /\ paths' = setPaths(paths, at, verbsWritten(httpMethod),
                                     operationOf(method, parameters, consumes))
                /\ call' = [documented |-> TRUE,
                            at         |-> at,
                            parameters |-> parameters,
                            body       |-> built.body,
                            defaultIn  |-> built.defaultIn,
                            consumes   |-> consumes,
                            written    |-> [i \in 1..Len(built.writes) |->
                                               built.writes[i].key]]

----------------------------------------------------------------------------
(* The documentation gate of createSwaggerServer *)

\* options.basicAuth.name && options.basicAuth.pass ("" stands for a missing
\* or empty field: both are falsy)
authEnabled == basicAuth.name # "" /\ basicAuth.pass # ""

\* variant: one matching field is enough
checkEither(credentials) ==
    credentials.name = basicAuth.name \/ credentials.pass = basicAuth.pass

\* Basic function to validate credentials: compare() is string equality
check(credentials) ==
    LET valid1 == credentials.name = basicAuth.name /\ TRUE
        valid2 == credentials.pass = basicAuth.pass /\ valid1
    IN  valid2

\* the synthesized document sent by GET /config
config == [tags |-> tags, paths |-> paths, definitions |-> definitions]

\* Check Auth passed or not, then the route's handler.  request.credentials
\* is what auth(req) parsed: <<>> when the header is missing or malformed.
authorize(request) ==
    LET credentials == request.credentials
        authPassed == credentials # <<>> /\ check(credentials[1])
    IN  /\ req' = request
        /\ res' = IF authEnabled /\ ~authPassed
                  THEN [status  |-> 401,
                        headers |-> {<<"WWW-Authenticate", "Basic realm=\"example\"">>},
                        body    |-> "Access denied",
                        sent    |-> <<>>]
                  ELSE IF request.url = "/config"
                       THEN [status |-> 200, headers |-> {}, body |-> "config",
                             sent |-> <<config>>]
                       ELSE [status |-> 200, headers |-> {}, body |-> "index",
                             sent |-> <<>>]
        /\ UNCHANGED <<tags, addedTags, paths, definitions, done, call, basicAuth>>

----------------------------------------------------------------------------
(* Input domains *)

ID == <<"i", "d">>
Q == <<"q">>
F == <<"f">>

scalar(name, type, required) ==
    [name |-> name, type |-> type, isArray |-> FALSE, required |-> required,
     description |-> Undefined, default |-> Undefined, enum |-> <<>>,
     hasParams |-> FALSE, params |-> <<>>]

structured(name, required, params) ==
    [name |-> name, type |-> "object", isArray |-> FALSE, required |-> required,
     description |-> Undefined, default |-> Undefined, enum |-> <<>>,
     hasParams |-> TRUE, params |-> params]

arrayOf(param) == [param EXCEPT !.isArray = TRUE]

Age == scalar(<<"a", "g", "e">>, "number", TRUE)
Zip == scalar(<<"z", "i", "p">>, "string", FALSE)
Addr == structured(<<"a", "d", "d", "r">>, FALSE, <<Zip>>)

ParamPool ==
    { scalar(ID, "string", FALSE),
      structured(ID, FALSE, <<Zip>>),
      scalar(F, "file", FALSE),
      scalar(Q, "string", TRUE),
      [scalar(Q, "date", FALSE) EXCEPT !.enum = <<"x", "y">>],
      structured(Q, TRUE, <<Age, Addr>>),
      arrayOf(structured(Q, FALSE, <<Age>>)) }

\* parameter lists: names are unique within a list
ParamLists ==
    {ps \in UNION {[1..n -> ParamPool] : n \in 0..MaxParams} :
        \A i, j \in 1..Len(ps) : i # j => ps[i].name # ps[j].name}

NoParent == [name |-> "", description |-> "", settingsDescription |-> ""]
UsersParent == [name |-> "users", description |-> "A", settingsDescription |-> ""]

Parents ==
    { NoParent,
      UsersParent,
      [name |-> "users", description |-> "B", settingsDescription |-> ""],
      [name |-> "users", description |-> "", settingsDescription |-> "S"],
      [name |-> "orders", description |-> "O", settingsDescription |-> "S"],
      [name |-> "constructor", description |-> "C", settingsDescription |-> ""] }

P_u == <<"/", "u">>
P_uid == <<"/", "u", "/", ":", "i", "d">>
P_uidx == <<"/", "u", "/", ":", "i", "d", "x">>
P_uj == <<"/", "u", ".", "j">>
P_ab == <<"/", ":", "a", "-", "b", "/", ":", "c", "_", "1">>

route(name, path, verb, description, parent, params) ==
    [name |-> name, fullName |-> <<"u", ".", "m">>, path |-> path, verb |-> verb,
     description |-> description, notes |-> "notes", parent |-> parent,
     params |-> params]

SwaggerRoute ==
    route(SWAGGER_BASE_PATH, <<"/", "_">>, "use", <<"s">>, NoParent, <<>>)

ParamRoutes ==
    {route("m", p, v, <<"d">>, UsersParent, ps) :
        p \in {P_uid, P_uidx}, v \in {"get", "options", "post"},
        ps \in ParamLists}

PathRoutes ==
    {route("m", p, v, d, UsersParent, <<>>) :
        p \in {P_u, P_uid, P_uj, P_ab},
        v \in {"get", "post", "options", "all", "use"},
        d \in {<<"d">>, <<"e">>}}
    \cup {SwaggerRoute, [SwaggerRoute EXCEPT !.verb = "get"]}

TagRoutes ==
    {route("m", P_u, v, <<"d">>, parent, <<>>) :
        v \in {"get", "post", "use"}, parent \in Parents}
    \cup {SwaggerRoute}

Credentials ==
    {<<>>} \cup {<<[name |-> n, pass |-> p]>> :
                    n \in {"doc", "x", ""}, p \in {"pw", "y", ""}}

Requests == [url : {"/", "/config"}, credentials : Credentials]

BasicAuths ==
    { [name |-> "", pass |-> ""],
      [name |-> "doc", pass |-> ""],
      [name |-> "", pass |-> "pw"],
      [name |-> "doc", pass |-> "pw"],
      [name |-> "x", pass |-> "y"],
      [name |-> "x", pass |-> "pw"] }

----------------------------------------------------------------------------
(* Specifications *)

NoReq == [url |-> "", credentials |-> <<>>]
NoRes == [status |-> 0, headers |-> {}, body |-> "", sent |-> <<>>]

Init ==
    /\ tags = <<>>
    /\ addedTags = {}
    /\ paths = <<>>
    /\ definitions = <<>>
    /\ done = <<>>
    /\ call = NoCall
    /\ basicAuth = [name |-> "", pass |-> ""]
    /\ req = NoReq
    /\ res = NoRes

\* app.allMethods().map(addPath) over a table of parameter-carrying routes
NextParams == Len(done) < MaxParamRoutes /\ \E m \in ParamRoutes : addPath(m)

SpecParams == Init /\ [][NextParams]_vars

\* app.allMethods().map(addPath) over a table of routes that differ in path,
\* verb and description
NextPaths == Len(done) < MaxRoutes /\ \E m \in PathRoutes : addPath(m)

SpecPaths == Init /\ [][NextPaths]_vars

\* app.allMethods().map(addPath) over a table of routes that differ in group
NextTags == Len(done) < MaxRoutes /\ \E m \in TagRoutes : addPath(m)

SpecTags == Init /\ [][NextTags]_vars

\* the mounted documentation server answering requests
InitAuth ==
    /\ tags = <<>>
    /\ addedTags = {}
    /\ paths = <<>>
    /\ definitions = <<>>
    /\ done = <<>>
    /\ call = NoCall
    /\ basicAuth \in BasicAuths
    /\ req = NoReq
    /\ res = NoRes

NextAuth == \E r \in Requests : authorize(r)

SpecAuth == InitAuth /\ [][NextAuth]_vars

----------------------------------------------------------------------------
(* Vocabulary of the properties *)

Last == done[Len(done)]

Documented(m) == m.name # "__swagger__" /\ m.verb # "use"

LastDocumented == Len(done) > 0 /\ Documented(Last)

FiveVerbs == {"get", "post", "put", "delete", "patch"}

\* the method-map keys a route's verb stands for
Expand(verb) == IF verb = "all" THEN FiveVerbs ELSE {verb}

\* the operations the last call stored
LastOperations == {paths[<<call.at, v>>] : v \in Expand(Last.verb)}

\* the identifiers of the ':identifier' placeholders of a path template
Placeholders(path) ==
    {SubSeq(path, i + 1, RunEnd(path, i + 1)) :
        i \in {k \in 1..(Len(path) - 1) : path[k] = ":" /\ path[k + 1] \in IdChars}}

Names(list) == {list[i].name : i \in 1..Len(list)}

\* the top-level entries of a parameters array that stand for declared
\* parameters (all but the synthesized body parameter)
Declared(parameters) ==
    {parameters[i] : i \in {k \in 1..Len(parameters) : parameters[k].in # "body"}}

BodyEntries(parameters) ==
    {i \in 1..Len(parameters) : parameters[i].in = "body"}

\* the default placement the specification states for a route
StatedPlacement(m) ==
    IF m.verb \in {"get", "options"} THEN "query"
    ELSE IF Len(m.params) = 0 \/ \E i \in 1..Len(m.params) : m.params[i].hasParams
         THEN "body" ELSE "formData"

BodyKey(m) == m.fullName \o <<".", "p", "a", "r", "a", "m", "s">>

WrittenKeys == {call.written[i] : i \in 1..Len(call.written)}

\* the property names of the body schema the last call synthesized
LastBodyNames ==
    IF BodyKey(Last) \in WrittenKeys
    THEN Names(definitions[BodyKey(Last)].properties)
    ELSE {}

----------------------------------------------------------------------------
(* C1: a route with a parameter of type "file" consumes multipart/form-data, *)
(* wherever the file parameter stands and however the others are placed.     *)

HasFile(m) ==
    \E i \in 1..Len(m.params) :
        m.params[i].type = "file" /\ ~m.params[i].isArray /\ ~m.params[i].hasParams

\* C1: every operation of a route that declares a file parameter consumes
\* multipart/form-data
C1_FileMeansMultipart ==
    (LastDocumented /\ HasFile(Last)) =>
        \A op \in LastOperations : op.consumes = <<"multipart/form-data">>

----------------------------------------------------------------------------
(* C3: every definition key a $ref names, in an operation's parameters or    *)
(* inside a definition's properties at any depth, is a key of definitions.   *)

\* the $ref values an entry (a conf or a bare schema object) carries
RefsOf(entry) ==
    IF "in" \in DOMAIN entry
    THEN {entry.schema[i].ref : i \in 1..Len(entry.schema)}
         \cup {entry.items[i].ref : i \in 1..Len(entry.items)}
    ELSE {entry.ref}

AllRefs ==
    ((UNION {UNION {RefsOf(paths[k].parameters[i]) : i \in 1..Len(paths[k].parameters)} :
                k \in DOMAIN paths})
     \cup
     (UNION {UNION {RefsOf(definitions[d].properties[i].value) :
                       i \in 1..Len(definitions[d].properties)} :
                d \in DOMAIN definitions}))
    \ {<<>>}

Resolves(ref) ==
    /\ Len(ref) > Len(RefPrefix)
    /\ SubSeq(ref, 1, Len(RefPrefix)) = RefPrefix
    /\ SubSeq(ref, Len(RefPrefix) + 1, Len(ref)) \in DOMAIN definitions

\* C3: every $ref of the document names a key of definitions
C3_RefsResolve == \A ref \in AllRefs : Resolves(ref)

\* a body schema whose property refers to a nested definition that itself
\* refers to a deeper one
C3_Witness ==
    /\ LastDocumented
    /\ BodyKey(Last) \in DOMAIN definitions
    /\ Cardinality(AllRefs) >= 3
    /\ \E d \in DOMAIN definitions :
          /\ Len(d) > Len(BodyKey(Last)) + 3
          /\ \E i \in 1..Len(definitions[d].properties) :
                RefsOf(definitions[d].properties[i].value) # {<<>>}

----------------------------------------------------------------------------
(* C4: a parameter is a top-level entry with in "path" and required true     *)
(* exactly when its name is a placeholder of the route's path; such a        *)
(* parameter is never a body property; any other parameter gets the default  *)
(* placement.                                                                *)

C4_PathBound ==
    LastDocumented =>
        \A i \in 1..Len(Last.params) :
            LET p == Last.params[i]
                entries == {e \in Declared(call.parameters) : e.name = p.name}
            IN  IF p.name \in Placeholders(Last.path)
                THEN /\ Cardinality(entries) = 1
                     /\ \A e \in entries : e.in = "path" /\ e.required
                     /\ p.name \notin LastBodyNames
                ELSE /\ \A e \in entries : e.in # "path" /\ e.in = StatedPlacement(Last)
                     /\ StatedPlacement(Last) = "body" <=> p.name \in LastBodyNames

----------------------------------------------------------------------------
(* C5: for get and options every parameter that is not bound to the path is  *)
(* a top-level entry in "query", there is no body parameter and scalar-only  *)
(* parameters create no definition; for every other verb the default         *)
(* placement is "body" when a parameter has nested params or the route has   *)
(* no parameters, and "formData" otherwise.                                  *)

----------------------------------------------------------------------------
(* C6: when the placement is "body" the parameters array has exactly one     *)
(* entry in "body", and it is the last; with accumulated properties it is    *)
(* required and refers to '<fullName>.params', whose properties are exactly  *)
(* the parameters not bound to the path; with none it is the optional open   *)
(* object schema and no '<fullName>.params' is written; a post route with    *)
(* no parameters has that one parameter only.                                *)

OpenBody(e) ==
    /\ e.in = "body"
    /\ e.name = <<"b", "o", "d", "y">>
    /\ ~e.required
    /\ e.schema = <<[ref |-> <<>>, type |-> "object"]>>

PathNames == {e.name : e \in {d \in Declared(call.parameters) : d.in = "path"}}

----------------------------------------------------------------------------
(* C9: each declared parameter is either a top-level entry of the            *)
(* operation's parameters or a property of its body schema                   *)
(* '<fullName>.params', never both and never neither.                        *)

C9_TopLevelXorBody ==
    LastDocumented =>
        \A i \in 1..Len(Last.params) :
            LET name == Last.params[i].name
                top == name \in Names(call.parameters)
                folded == name \in LastBodyNames
            IN  (top \/ folded) /\ ~(top /\ folded)

\* one parameter bound to the path and one folded into the body
C9_Witness ==
    /\ LastDocumented
    /\ Len(Last.params) = 2
    /\ \E e \in Declared(call.parameters) : e.in = "path"
    /\ Cardinality(LastBodyNames) = 1
    /\ LastBodyNames \cap PathNames = {}

----------------------------------------------------------------------------
(* C2: every documented route has its templated path as a top-level key of   *)
(* paths, with no ':identifier' left in it, and its verb maps to an          *)
(* Operation there; routes sharing a templated path accumulate their verbs,  *)
(* and a verb written more than once keeps the last route's operation.       *)

NoResidualColon(tp) ==
    ~\E i \in 1..(Len(tp) - 1) : tp[i] = ":" /\ tp[i + 1] \in IdChars

Braced(path, tp) ==
    \A id \in Placeholders(path) : Contains(tp, <<"{">> \o id \o <<"}">>)

\* the last route of the table that wrote verb v under templated path tp
LastWriter(tp, v) ==
    LET writers == {j \in 1..Len(done) :
                       /\ Documented(done[j])
                       /\ pathReplacer(done[j].path) = tp
                       /\ v \in Expand(done[j].verb)}
    IN  done[CHOOSE j \in writers : \A k \in writers : k <= j]

\* C2: paths is keyed by the templated path of every documented route and
\* holds, per verb, the operation of the last route that wrote it
C2_PathsKeyedByTemplate ==
    \A i \in 1..Len(done) :
        Documented(done[i]) =>
            LET tp == pathReplacer(done[i].path)
            IN  /\ NoResidualColon(tp)
                /\ Braced(done[i].path, tp)
                /\ tp \in topKeys(paths)
                /\ \A v \in Expand(done[i].verb) :
                      /\ <<(<<tp>>), v>> \in DOMAIN paths
                      /\ paths[<<(<<tp>>), v>>].summary =
                            LastWriter(tp, v).fullName \o <<" ", "=", ">", " ">>
                                \o LastWriter(tp, v).description

----------------------------------------------------------------------------
(* C7: tags hold no two entries of one name, each with the description of    *)
(* the first route seen with that name, in first-seen order, and every tag   *)
(* an operation names is in the tags list.                                   *)

StatedDescription(m) ==
    IF m.parent.description # "" THEN m.parent.description
    ELSE m.parent.settingsDescription

RECURSIVE FirstSeen(_, _, _)
\* the tags of the documented routes of table[i..], by first occurrence
FirstSeen(table, i, seen) ==
    IF i > Len(table) THEN <<>>
    ELSE IF Documented(table[i]) /\ table[i].parent.name \notin seen
         THEN <<[name |-> table[i].parent.name,
                 description |-> StatedDescription(table[i])]>>
              \o FirstSeen(table, i + 1, seen \cup {table[i].parent.name})
         ELSE FirstSeen(table, i + 1, seen)

\* C7: tags are unique by name, carry the first description, stand in
\* first-seen order and cover the tags of every operation
C7_TagsAggregate ==
    /\ \A i, j \in 1..Len(tags) : i # j => tags[i].name # tags[j].name
    /\ tags = FirstSeen(done, 1, {})
    /\ \A k \in DOMAIN paths :
          \A t \in 1..Len(paths[k].tags) : paths[k].tags[t] \in Names(tags)

----------------------------------------------------------------------------
(* C8: a route with verb 'all' leaves exactly the keys get, post, put,       *)
(* delete, patch in the method map of its path, with five operations equal   *)
(* by content.                                                               *)

\* the keys of the method map at `at` that are verbs, and those that are
\* segments of longer dotted paths
VerbKeys(object, at) == {k[2] : k \in {l \in DOMAIN object : l[1] = at}}

ChildKeys(object, at) ==
    {k[1][Len(at) + 1] :
        k \in {l \in DOMAIN object :
                  Len(l[1]) > Len(at) /\ SubSeq(l[1], 1, Len(at)) = at}}

\* C8 as stated: after an 'all' route the method map of its path has exactly
\* the keys get, post, put, delete, patch, with equal operations
C8_ExactlyFiveKeys ==
    (LastDocumented /\ Last.verb = "all") =>
        /\ VerbKeys(paths, call.at) = FiveVerbs
        /\ \A v, w \in FiveVerbs : paths[<<call.at, v>>] = paths[<<call.at, w>>]

\* C8 as amended: addPath of an 'all' route adds exactly the keys get, post,
\* put, delete, patch, each with the same operation, to the keys the method
\* map of its path already had; a map that had none has exactly these five
C8_AddsFiveKeys ==
    [][(Len(done') > Len(done) /\ Documented(done'[Len(done')])
            /\ done'[Len(done')].verb = "all") =>
          LET at == call'.at
          IN  /\ VerbKeys(paths', at) = VerbKeys(paths, at) \cup FiveVerbs
              /\ ChildKeys(paths', at) = ChildKeys(paths, at)
              /\ "all" \notin VerbKeys(paths', at) \ VerbKeys(paths, at)
              /\ \A v, w \in FiveVerbs : paths'[<<at, v>>] = paths'[<<at, w>>]
              /\ \A v \in FiveVerbs :
                    paths'[<<at, v>>].summary =
                        done'[Len(done')].fullName \o <<" ", "=", ">", " ">>
                            \o done'[Len(done')].description
              /\ (VerbKeys(paths, at) = {} /\ ChildKeys(paths, at) = {}) =>
                    VerbKeys(paths', at) = FiveVerbs]_vars

\* an 'all' route after an 'options' route of the same path: six keys
C8_Witness ==
    /\ Len(done) = 2
    /\ LastDocumented
    /\ Last.verb = "all"
    /\ done[1].verb = "options"
    /\ VerbKeys(paths, call.at) = FiveVerbs \cup {"options"}
    /\ paths[<<call.at, "get">>] = paths[<<call.at, "patch">>]

----------------------------------------------------------------------------
(* C10: with basicAuth.name and basicAuth.pass both set, a request to / or   *)
(* /config without credentials, or with a name or pass that differs, gets    *)
(* 401 with a WWW-Authenticate challenge and 'Access denied', and the        *)
(* document goes only to requests whose name and pass both match; without a  *)
(* complete basicAuth every request passes.                                  *)

GateOn == basicAuth.name # "" /\ basicAuth.pass # ""

Matches(request) ==
    /\ request.credentials # <<>>
    /\ request.credentials[1].name = basicAuth.name
    /\ request.credentials[1].pass = basicAuth.pass

Denied(response) ==
    /\ response.status = 401
    /\ \E h \in response.headers : h[1] = "WWW-Authenticate"
    /\ response.body = "Access denied"
    /\ response.sent = <<>>

Served(request, response) ==
    /\ response.status = 200
    /\ response.body = IF request.url = "/config" THEN "config" ELSE "index"
    /\ request.url = "/config" =>
          response.sent = <<[tags |-> tags, paths |-> paths, definitions |-> definitions]>>

\* C10: the gate denies with 401 and a challenge unless name and pass both
\* match, serves on a match, and is open without a complete basicAuth
C10_Gate ==
    req.url \in {"/", "/config"} =>
        /\ (GateOn /\ ~Matches(req)) => Denied(res)
        /\ (GateOn /\ Matches(req)) => Served(req, res)
        /\ (GateOn /\ res.sent # <<>>) => Matches(req)
        /\ ~GateOn => Served(req, res)

\* the right name with a wrong pass is denied
C10_Witness ==
    /\ GateOn
    /\ req.url = "/config"
    /\ req.credentials # <<>>
    /\ req.credentials[1].name = basicAuth.name
    /\ req.credentials[1].pass # basicAuth.pass
    /\ Denied(res)

----------------------------------------------------------------------------
(* Route tables with pairwise distinct fullName values *)

PARAMS == <<"p", "a", "r", "a", "m", "s">>

KeyParamPool ==
    { structured(PARAMS, FALSE, <<Zip>>),
      structured(Q, FALSE, <<Zip>>),
      structured(Q, TRUE, <<structured(PARAMS, FALSE, <<Zip>>)>>),
      scalar(Q, "string", FALSE) }

\* parameter lists: names are unique within a list
KeyParamLists ==
    {ps \in UNION {[1..n -> KeyParamPool] : n \in 0..MaxParams} :
        \A i, j \in 1..Len(ps) : i # j => ps[i].name # ps[j].name}

FullNames == { <<"u">>, <<"u", ".", "p", "a", "r", "a", "m", "s">>, <<"o", ".", "m">> }

KeyRoutes ==
    {[route("m", P_u, v, <<"d">>, UsersParent, ps) EXCEPT !.fullName = fn] :
        v \in {"get", "post"}, ps \in KeyParamLists, fn \in FullNames}

\* app.allMethods().map(addPath) over a table whose fullName values are unique
NextKeys ==
    /\ Len(done) < MaxRoutes
    /\ \E m \in KeyRoutes :
          /\ \A i \in 1..Len(done) : done[i].fullName # m.fullName
          /\ addPath(m)

SpecKeys == Init /\ [][NextKeys]_vars

----------------------------------------------------------------------------
(* C11: with pairwise distinct fullName values and parameter names unique    *)
(* within each list, no two sources (the body schema of a route or a nested  *)
(* structured parameter of a route) write the same key of definitions, so    *)
(* no generated definition is overwritten.                                   *)

\* the writes to definitions of the route at position i of the table, each
\* with its source: the route and the position of the write in its call
RouteWrites(i) ==
    IF Documented(done[i])
    THEN LET ws == buildParameters(done[i], done[i].params, <<>>, FALSE).writes
         IN  {[route |-> i, nth |-> n, key |-> ws[n].key, value |-> ws[n].value] :
                 n \in 1..Len(ws)}
    ELSE {}

TableWrites == UNION {RouteWrites(i) : i \in 1..Len(done)}

UniqueFullNames ==
    \A i, j \in 1..Len(done) : i # j => done[i].fullName # done[j].fullName

\* C11: no two distinct sources write the same definition key, and every
\* definition written is still the one its source wrote
C11_KeysCollisionFree ==
    UniqueFullNames =>
        /\ \A w1, w2 \in TableWrites :
              (w1.route # w2.route \/ w1.nth # w2.nth) => w1.key # w2.key
        /\ \A w \in TableWrites :
              w.key \in DOMAIN definitions /\ definitions[w.key] = w.value

====
